---- MODULE Spec2Model ----
(***************************************************************************)
(* ORBIT-SEC: the scan pipeline (orbit-sec.py), the result store (SQLite,  *)
(* results.db), the dashboard's reader (get_latest_scan), the remediation  *)
(* handlers (fix_vulnerability, fix_all_vulnerabilities) on the server's   *)
(* event loop, and the SARIF parser (parse_trivy_sarif).                   *)
(*                                                                         *)
(* Text that the code inspects character by character (package names,      *)
(* versions, manifest content, secret text) is a sequence of one-character *)
(* strings; text the code only copies is a TLA+ string.                    *)
(***************************************************************************)
EXTENDS Integers, Sequences, FiniteSets, TLC

VARIABLES
    \* ---- the scanner process (orbit-sec.py)
    spc,            \* position of the scanner process
    exit_code,      \* process exit status (-1 while running)
    resolvable,     \* history: the tools `which` resolved in this run
    invoked,        \* history: the adapters invoked in this run
    trivy_out,      \* history: what the trivy subprocess did in this run
    gitleaks_out,   \* history: what the gitleaks subprocess did in this run
    trivy_vulns,    \* scan(): trivy_vulns
    gitleaks_vulns, \* scan(): gitleaks_vulns
    \* ---- the result store (results.db)
    db_state,       \* "absent" | "file" (created, no tables yet) | "ready"
    db,             \* committed rows: [scans, vulns]
    tx,             \* rows written by the open transaction of save_results
    scans0,         \* history: number of committed scans when the run started
    saved,          \* history: scan id -> the findings handed to that save
    \* ---- the dashboard reader (get_latest_scan)
    rpc,            \* position of the reader
    r_scan,         \* the row fetched by the first SELECT
    r_vulns,        \* the rows fetched by the second SELECT
    \* ---- the remediation handlers (dashboard/app.py)
    fs,             \* path -> file content, or Missing
    fpc,            \* position of the request being handled
    req,            \* the request being handled
    content,        \* the handler's local: content read from the manifest
    todo,           \* bulk fix: the file groups still to process
    fixed_count,    \* bulk fix: fixed_count
    results,        \* bulk fix: results
    outcome,        \* what the last finished request returned
    pre,            \* history: path -> content when the current call began
    log,            \* history: the paths written by the current call, in order
    calls,          \* history: number of requests served
    faults,         \* history: number of failed file operations
    \* ---- the artifact parser (dashboard/artifact_parser.py)
    apc,            \* position of the caller of parse_trivy_sarif
    sarif,          \* the report file handed to parse_trivy_sarif
    dep_data,       \* what parse_trivy_sarif returned
    \* ---- the server's event loop (uvicorn, dashboard/app.py)
    parked          \* the handler state of the connection not being served

scanVars  == <<spc, exit_code, resolvable, invoked, trivy_out, gitleaks_out,
               trivy_vulns, gitleaks_vulns>>
storeVars == <<db_state, db, tx, scans0, saved>>
readVars  == <<rpc, r_scan, r_vulns>>
fixVars   == <<fs, fpc, req, content, todo, fixed_count, results, outcome,
               pre, log, calls, faults>>
artVars   == <<apc, sarif, dep_data>>
loopVars  == <<parked>>
vars      == <<scanVars, storeVars, readVars, fixVars, artVars, loopVars>>

-----------------------------------------------------------------------------
(* Bounds of the model *)

MaxScans == 2        \* scan runs persisted in one behaviour
MaxVulns == 2        \* entries of one vulnerability array / leaks of one report
MaxGroups == 2       \* result groups of one trivy report
MaxSecretLen == 22   \* longest secret text drawn for the normaliser
MaxLines == 2        \* lines of a manifest at the start
MaxFindings == 2     \* dependency findings stored for requirements.txt
MaxCalls == 2        \* remediation requests served in one behaviour
MaxFaults == 1       \* file operations that fail in one behaviour
MaxRuns == 1         \* runs of one SARIF report
MaxResults == 3      \* results of one SARIF run

(* Program constants *)

SecretPrefix == 20   \* secret.get('Secret', '')[:20]
TopFindings == 5     \* findings[:5]

-----------------------------------------------------------------------------
(* Values *)

None == "None"
NoRow == [id |-> 0]

\* dict.get(key, default)
Get(d, k, default) == IF k \in DOMAIN d THEN d[k] ELSE default

Min(a, b) == IF a < b THEN a ELSE b

Range(seq) == {seq[i] : i \in 1..Len(seq)}

\* s[:n]
Prefix(s, n) == SubSeq(s, 1, Min(n, Len(s)))

\* str.upper over the severity words the model draws
Upper(s) ==
    CASE s = "high"     -> "HIGH"
      [] s = "Critical" -> "CRITICAL"
      [] s = "medium"   -> "MEDIUM"
      [] s = "low"      -> "LOW"
      [] s = "none"     -> "NONE"
      [] s = "critical" -> "CRITICAL"
      [] OTHER          -> s

\* str.lower over the level words the model draws
Lower(s) ==
    CASE s = "WARNING" -> "warning"
      [] OTHER         -> s

Canonical == {"CRITICAL", "HIGH", "MEDIUM", "LOW"}

-----------------------------------------------------------------------------
(* run_trivy: the dependency adapter and its normaliser *)

\* one dict appended per vulnerability entry (orbit-sec.py 93-106)
TrivyFinding(vuln, res) ==
    [scan_type         |-> "dependency",
     severity          |-> Get(vuln, "Severity", "UNKNOWN"),
     package           |-> Get(vuln, "PkgName", <<"unknown">>),
     vulnerability     |-> Get(vuln, "VulnerabilityID", ""),
     description       |-> Get(vuln, "Title", <<>>),
     file              |-> Get(res, "Target", ""),
     line              |-> None,
     installed_version |-> Get(vuln, "InstalledVersion", <<>>),
     fixed_version     |-> Get(vuln, "FixedVersion", <<>>)]

\* for vuln in res.get("Vulnerabilities", [])
GroupFindings(res) ==
    LET vs == Get(res, "Vulnerabilities", <<>>)
    IN  [i \in 1..Len(vs) |-> TrivyFinding(vs[i], res)]

RECURSIVE TrivyFindings(_)
\* for res in data.get("Results", [])
TrivyFindings(groups) ==
    IF groups = <<>> THEN <<>>
    ELSE GroupFindings(Head(groups)) \o TrivyFindings(Tail(groups))

\* proc is what subprocess.run did: a timeout, or a return code and stdout.
\* stdout is empty, text that is no JSON, or a JSON value; a JSON value that
\* is no object makes data.get raise, which except Exception absorbs.
run_trivy(proc) ==
    IF proc.timeout THEN <<>>
    ELSE IF proc.stdout.tag = "empty" THEN TrivyFindings(<<>>)
    ELSE IF proc.stdout.tag = "garbage" THEN <<>>
    ELSE IF proc.stdout.data.t # "obj" THEN <<>>
    ELSE TrivyFindings(Get(proc.stdout.data.v, "Results", <<>>))

-----------------------------------------------------------------------------
(* run_gitleaks: the secret adapter and its normaliser *)

\* a plausible slip: the slice forgotten, the whole secret embedded
SecretDescription_whole(secret) ==
    <<"Secret found: ">> \o Get(secret, "Secret", <<>>) \o <<"...">>

\* f"Secret found: {secret.get('Secret', '')[:20]}..."
SecretDescription(secret) ==
    <<"Secret found: ">> \o Prefix(Get(secret, "Secret", <<>>), SecretPrefix)
        \o <<"...">>

\* a plausible slip: the adapter fills fixed_version with a placeholder
GitleaksFinding_versioned(secret) ==
    [scan_type     |-> "secret",
     severity      |-> "CRITICAL",
     package       |-> Get(secret, "RuleID", <<>>),
     vulnerability |-> Get(secret, "Description", "Secret detected"),
     description   |-> SecretDescription(secret),
     file          |-> Get(secret, "File", ""),
     line          |-> Get(secret, "StartLine", "0"),
     fixed_version |-> <<"n", "/", "a">>]

\* one dict appended per leak (orbit-sec.py 142-150); no version keys
GitleaksFinding(secret) ==
    [scan_type     |-> "secret",
     severity      |-> "CRITICAL",
     package       |-> Get(secret, "RuleID", <<>>),
     vulnerability |-> Get(secret, "Description", "Secret detected"),
     description   |-> SecretDescription(secret),
     file          |-> Get(secret, "File", ""),
     line          |-> Get(secret, "StartLine", "0")]

\* a plausible slip: exit code 1 (secrets found) taken for a failed run
run_gitleaks_exit_is_failure(proc) ==
    IF proc.timeout THEN <<>>
    ELSE IF proc.returncode # 0 THEN <<>>
    ELSE IF proc.stdout.tag \in {"empty", "garbage"} THEN <<>>
    ELSE IF proc.stdout.data.t # "list" THEN <<>>
    ELSE [i \in 1..Len(proc.stdout.data.v) |->
              GitleaksFinding(proc.stdout.data.v[i])]

run_gitleaks(proc) ==
    IF proc.timeout THEN <<>>
    ELSE IF proc.stdout.tag = "empty"
         THEN <<>>
    ELSE IF proc.stdout.tag = "garbage" THEN <<>>
    ELSE IF proc.stdout.data.t # "list" THEN <<>>
    ELSE [i \in 1..Len(proc.stdout.data.v) |->
              GitleaksFinding(proc.stdout.data.v[i])]

-----------------------------------------------------------------------------
(* What the two subprocesses can do, as drawn by the pipeline *)

Timeout == [timeout |-> TRUE]
Output(rc, so) == [timeout |-> FALSE, returncode |-> rc, stdout |-> so]
EmptyOut == [tag |-> "empty"]
Garbage == [tag |-> "garbage"]
Json(t, v) == [tag |-> "json", data |-> [t |-> t, v |-> v]]

Req == "requirements.txt"
SubReq == "sub/requirements.txt"
AppPy == "app.py"

VulnFull ==
    [PkgName |-> <<"f">>, Severity |-> "HIGH", VulnerabilityID |-> "CVE-1",
     Title |-> <<"t">>, InstalledVersion |-> <<"1">>, FixedVersion |-> <<"2">>]
VulnNoFix ==
    [PkgName |-> <<"f">>, Severity |-> "LOW", VulnerabilityID |-> "CVE-2",
     Title |-> <<"t">>, InstalledVersion |-> <<"1">>]
VulnLower ==
    [PkgName |-> <<"m", "f">>, Severity |-> "high", VulnerabilityID |-> "CVE-3",
     Title |-> <<"t">>, InstalledVersion |-> <<"1">>, FixedVersion |-> <<"1", "1">>]
VulnBare == [VulnerabilityID |-> "CVE-4"]

\* the secret of end-to-end scenario B, 24 characters
StripeSecret ==
    <<"s", "k", "_", "l", "i", "v", "e", "_", "5", "1", "2", "3", "4", "5",
      "6", "7", "8", "9", "a", "b", "c", "d", "e", "f">>
LeakStripe ==
    [Description |-> "Stripe Key", File |-> AppPy, StartLine |-> "12",
     Secret |-> StripeSecret]
LeakShort ==
    [RuleID |-> <<"r">>, Description |-> "Token", File |-> AppPy,
     StartLine |-> "3", Secret |-> <<"a", "b">>]

TrivyProcs ==
    { Timeout,
      Output(2, Garbage),
      Output(0, EmptyOut),
      Output(0, Json("list", <<>>)),
      Output(1, Json("obj", [Results |-> <<>>])),
      Output(1, Json("obj", [Results |-> <<[Target |-> Req]>>])),
      Output(1, Json("obj", [Results |->
          <<[Target |-> Req, Vulnerabilities |-> <<VulnFull>>]>>])),
      Output(1, Json("obj", [Results |->
          <<[Target |-> Req, Vulnerabilities |-> <<VulnFull, VulnNoFix>>],
            [Target |-> SubReq, Vulnerabilities |-> <<VulnFull>>]>>])) }

GitleaksProcs ==
    { Timeout,
      Output(1, Garbage),
      Output(0, EmptyOut),
      Output(0, Json("obj", [x |-> 0])),
      Output(1, Json("list", <<LeakStripe>>)),
      Output(1, Json("list", <<LeakShort, LeakStripe>>)) }

-----------------------------------------------------------------------------
(* The result store: SQLite as the code uses it *)

EmptyRows == [scans |-> <<>>, vulns |-> <<>>]

Merge(committed, pending) ==
    [scans |-> committed.scans \o pending.scans,
     vulns |-> committed.vulns \o pending.vulns]

\* a plausible slip: a connection in autocommit mode, each INSERT visible at once
VisibleAutocommit(committed, pending) == Merge(committed, pending)

\* sqlite3.connect with the default isolation level: the first INSERT opens a
\* transaction, and another connection reads only committed rows until
\* conn.commit() (orbit-sec.py 167, 174, 188; app.py 24).
Visible(committed, pending) == committed

\* a plausible slip: the status derived from the dependency findings alone
save_status_trivy_only(tv, gv) == IF Len(tv) > 0 THEN "FAILED" ELSE "PASSED"

\* status = "FAILED" if total_vulns > 0 else "PASSED"
save_status(tv, gv) == IF Len(tv) + Len(gv) > 0 THEN "FAILED" ELSE "PASSED"

\* INSERT INTO scans (target, timestamp, status); AUTOINCREMENT id
ScanRow(committed, tv, gv) ==
    [id |-> Len(committed.scans) + 1, target |-> "/target",
     status |-> save_status(tv, gv)]

\* all_vulns = trivy_vulns + gitleaks_vulns
all_vulns(tv, gv) == tv \o gv

\* INSERT INTO vulnerabilities (...); AUTOINCREMENT id
VulnRow(id, scan_id, vuln) ==
    [id |-> id, scan_id |-> scan_id, scan_type |-> vuln.scan_type,
     severity |-> vuln.severity, package |-> vuln.package,
     vulnerability |-> vuln.vulnerability, description |-> vuln.description,
     file |-> vuln.file, line |-> vuln.line,
     installed_version |-> Get(vuln, "installed_version", <<>>),
     fixed_version |-> Get(vuln, "fixed_version", <<>>)]

\* save_results as one committed unit
save_results(committed, tv, gv) ==
    LET scan == ScanRow(committed, tv, gv)
        av == all_vulns(tv, gv)
        base == Len(committed.vulns)
    IN  [scans |-> Append(committed.scans, scan),
         vulns |-> committed.vulns \o
                   [i \in 1..Len(av) |-> VulnRow(base + i, scan.id, av[i])]]

-----------------------------------------------------------------------------
(* The scanner process: main -> Scanner.__init__ -> scan *)

\* sqlite3.connect(self.db_path) creates the file
Construct ==
    /\ spc = "init"
    /\ spc' = "setup"
    /\ db_state' = IF db_state = "absent" THEN "file" ELSE db_state
    /\ scans0' = Len(db.scans)
    /\ UNCHANGED <<exit_code, resolvable, invoked, trivy_out, gitleaks_out,
                   trivy_vulns, gitleaks_vulns, db, tx, saved>>
    /\ UNCHANGED <<readVars, fixVars, artVars, loopVars>>

\* CREATE TABLE IF NOT EXISTS scans / vulnerabilities; commit
setup_database ==
    /\ spc = "setup"
    /\ spc' = "scan"
    /\ db_state' = "ready"
    /\ UNCHANGED <<exit_code, resolvable, invoked, trivy_out, gitleaks_out,
                   trivy_vulns, gitleaks_vulns, db, tx, scans0, saved>>
    /\ UNCHANGED <<readVars, fixVars, artVars, loopVars>>

\* if not self.target.exists(): sys.exit(1)
TargetCheck ==
    /\ spc = "scan"
    /\ \E exists \in BOOLEAN :
        IF exists
        THEN spc' = "deps" /\ UNCHANGED exit_code
        ELSE spc' = "exited" /\ exit_code' = 1
    /\ UNCHANGED <<resolvable, invoked, trivy_out, gitleaks_out, trivy_vulns,
                   gitleaks_vulns>>
    /\ UNCHANGED <<storeVars, readVars, fixVars, artVars, loopVars>>

Required == {"trivy", "gitleaks"}

\* a plausible slip: only the first tool is looked up
MissingTools_trivy_only(found) == {t \in {"trivy"} : t \notin found}

\* the tools whose `which` fails
MissingTools(found) == {t \in Required : t \notin found}

\* missing non-empty: sys.exit(1)
check_dependencies ==
    /\ spc = "deps"
    /\ \E found \in SUBSET Required :
        /\ resolvable' = found
        /\ IF MissingTools(found) # {}
           THEN spc' = "exited" /\ exit_code' = 1
           ELSE spc' = "trivy" /\ UNCHANGED exit_code
    /\ UNCHANGED <<invoked, trivy_out, gitleaks_out, trivy_vulns,
                   gitleaks_vulns>>
    /\ UNCHANGED <<storeVars, readVars, fixVars, artVars, loopVars>>

\* trivy_vulns = self.run_trivy()
ScanTrivy ==
    /\ spc = "trivy"
    /\ \E proc \in TrivyProcs :
        /\ trivy_out' = proc
        /\ trivy_vulns' = run_trivy(proc)
    /\ invoked' = invoked \cup {"trivy"}
    /\ spc' = "gitleaks"
    /\ UNCHANGED <<exit_code, resolvable, gitleaks_out, gitleaks_vulns>>
    /\ UNCHANGED <<storeVars, readVars, fixVars, artVars, loopVars>>

\* gitleaks_vulns = self.run_gitleaks()
ScanGitleaks ==
    /\ spc = "gitleaks"
    /\ \E proc \in GitleaksProcs :
        /\ gitleaks_out' = proc
        /\ gitleaks_vulns' = run_gitleaks(proc)
    /\ invoked' = invoked \cup {"gitleaks"}
    /\ spc' = "save"
    /\ UNCHANGED <<exit_code, resolvable, trivy_out, trivy_vulns>>
    /\ UNCHANGED <<storeVars, readVars, fixVars, artVars, loopVars>>

\* save_results: INSERT INTO scans; scan_id = c.lastrowid
SaveScan ==
    /\ spc = "save"
    /\ tx' = [tx EXCEPT !.scans =
                 <<ScanRow(db, trivy_vulns, gitleaks_vulns)>>]
    /\ saved' = [saved EXCEPT ![Len(db.scans) + 1] =
                    all_vulns(trivy_vulns, gitleaks_vulns)]
    /\ spc' = "insert"
    /\ UNCHANGED <<exit_code, resolvable, invoked, trivy_out, gitleaks_out,
                   trivy_vulns, gitleaks_vulns, db_state, db, scans0>>
    /\ UNCHANGED <<readVars, fixVars, artVars, loopVars>>

\* save_results: one INSERT INTO vulnerabilities per element of all_vulns
InsertVuln ==
    /\ spc = "insert"
    /\ Len(tx.vulns) < Len(all_vulns(trivy_vulns, gitleaks_vulns))
    /\ LET i == Len(tx.vulns) + 1
       IN  tx' = [tx EXCEPT !.vulns = Append(@,
                     VulnRow(Len(db.vulns) + i, tx.scans[1].id,
                             all_vulns(trivy_vulns, gitleaks_vulns)[i]))]
    /\ UNCHANGED <<scanVars, db_state, db, scans0, saved>>
    /\ UNCHANGED <<readVars, fixVars, artVars, loopVars>>

\* save_results: conn.commit(); scan() prints the summary and returns
Commit ==
    /\ spc = "insert"
    /\ Len(tx.vulns) = Len(all_vulns(trivy_vulns, gitleaks_vulns))
    /\ db' = Merge(db, tx)
    /\ tx' = EmptyRows
    /\ spc' = "done"
    /\ exit_code' = 0
    /\ UNCHANGED <<resolvable, invoked, trivy_out, gitleaks_out, trivy_vulns,
                   gitleaks_vulns, db_state, scans0, saved>>
    /\ UNCHANGED <<readVars, fixVars, artVars, loopVars>>

\* operator abort (KeyboardInterrupt, kill) once the adapters run: the
\* process dies and SQLite rolls the open transaction back
Interrupt ==
    /\ spc \in {"trivy", "gitleaks", "save", "insert"}
    /\ spc' = "exited"
    /\ exit_code' = 130
    /\ tx' = EmptyRows
    /\ UNCHANGED <<resolvable, invoked, trivy_out, gitleaks_out, trivy_vulns,
                   gitleaks_vulns, db_state, db, scans0, saved>>
    /\ UNCHANGED <<readVars, fixVars, artVars, loopVars>>

NoProc == [timeout |-> FALSE, returncode |-> 0, stdout |-> [tag |-> "none"]]

\* the next invocation of orbit-sec.py
NewRun ==
    /\ spc \in {"done", "exited"}
    /\ Len(db.scans) < MaxScans
    /\ spc' = "init"
    /\ exit_code' = -1
    /\ resolvable' = Required
    /\ invoked' = {}
    /\ trivy_out' = NoProc
    /\ gitleaks_out' = NoProc
    /\ trivy_vulns' = <<>>
    /\ gitleaks_vulns' = <<>>
    /\ UNCHANGED <<storeVars, readVars, fixVars, artVars, loopVars>>

-----------------------------------------------------------------------------
(* The dashboard reader: get_latest_scan *)

RECURSIVE LatestRow(_)
\* SELECT ... FROM scans ORDER BY id DESC LIMIT 1
LatestRow(rows) ==
    IF Len(rows) = 1 THEN rows[1]
    ELSE LET rest == LatestRow(Tail(rows))
         IN  IF rows[1].id > rest.id THEN rows[1] ELSE rest

\* SELECT ... FROM vulnerabilities WHERE scan_id = ?
VulnsOf(rows, scan_id) == SelectSeq(rows, LAMBDA v : v.scan_id = scan_id)

\* if not DB_PATH.exists(): return None; first SELECT; if not scan: return None
ReadScan ==
    /\ rpc = "idle"
    /\ r_vulns' = <<>>
    /\ IF db_state = "absent"
       THEN rpc' = "returned" /\ r_scan' = NoRow
       ELSE IF db_state = "file"
       THEN rpc' = "raised" /\ r_scan' = NoRow
       ELSE IF Visible(db, tx).scans = <<>>
       THEN rpc' = "returned" /\ r_scan' = NoRow
       ELSE rpc' = "fetched" /\ r_scan' = LatestRow(Visible(db, tx).scans)
    /\ UNCHANGED <<scanVars, storeVars, fixVars, artVars, loopVars>>

\* second SELECT; conn.close(); the result is built from the fetched rows
ReadVulns ==
    /\ rpc = "fetched"
    /\ r_vulns' = VulnsOf(Visible(db, tx).vulns, r_scan.id)
    /\ rpc' = "returned"
    /\ UNCHANGED r_scan
    /\ UNCHANGED <<scanVars, storeVars, fixVars, artVars, loopVars>>

\* the caller has the result; the next request may come
ReadDone ==
    /\ rpc \in {"returned", "raised"}
    /\ rpc' = "idle"
    /\ r_scan' = NoRow
    /\ r_vulns' = <<>>
    /\ UNCHANGED <<scanVars, storeVars, fixVars, artVars, loopVars>>

Count(rows, sev) == Len(SelectSeq(rows, LAMBDA v : v.severity = sev))

\* count_severity(vuln_list)
count_severity(rows) ==
    [critical |-> Count(rows, "CRITICAL"), high |-> Count(rows, "HIGH"),
     medium |-> Count(rows, "MEDIUM"), low |-> Count(rows, "LOW"),
     total |-> Len(rows)]

\* the dict of one dependency finding (app.py 75-85)
DepItem(v) ==
    [id |-> v.id, severity |-> v.severity, cve |-> v.vulnerability,
     package |-> v.package, description |-> v.description, file |-> v.file,
     line |-> v.line, installed_version |-> v.installed_version,
     fixed_version |-> v.fixed_version]

\* the dict of one secret finding (app.py 93-100)
SecretItem(v) ==
    [id |-> v.id, severity |-> v.severity, type |-> v.package,
     description |-> v.description, file |-> v.file, line |-> v.line]

\* the value get_latest_scan returns for the fetched rows (app.py 44-104)
get_latest_scan(scan, vulns) ==
    LET dependency_vulns == SelectSeq(vulns, LAMBDA v : v.scan_type = "dependency")
        secret_vulns == SelectSeq(vulns, LAMBDA v : v.scan_type = "secret")
        dep_counts == count_severity(dependency_vulns)
        secret_counts == count_severity(secret_vulns)
    IN  [scan_id |-> scan.id,
         target |-> scan.target,
         status |-> scan.status,
         total_vulnerabilities |-> dep_counts.total + secret_counts.total,
         critical_count |-> dep_counts.critical + secret_counts.critical,
         high_count |-> dep_counts.high + secret_counts.high,
         medium_count |-> dep_counts.medium + secret_counts.medium,
         low_count |-> dep_counts.low + secret_counts.low,
         dependencies |->
             [i \in 1..Len(dependency_vulns) |-> DepItem(dependency_vulns[i])],
         secrets |->
             [i \in 1..Len(secret_vulns) |-> SecretItem(secret_vulns[i])]]

\* a read has returned a scan (not None)
ReadReturned == rpc = "returned" /\ r_scan # NoRow

-----------------------------------------------------------------------------
(* parse_trivy_sarif: the dashboard's parser of a SARIF report *)

\* level -> severity word (artifact_parser.py 25-31): the three known levels
\* are renamed, every other word is kept as it is
SarifSeverity(result) ==
    LET severity == Lower(Get(result, "level", "none"))
    IN  IF severity = "error" THEN "high"
        ELSE IF severity = "warning" THEN "medium"
        ELSE IF severity = "note" THEN "low"
        ELSE severity

\* the dict appended for one result (artifact_parser.py 34-52)
SarifFinding(result) ==
    LET locations == Get(result, "locations", <<>>)
    IN  [severity |-> Upper(SarifSeverity(result)),
         cve |-> Get(result, "ruleId", ""),
         package |-> IF locations # <<>> THEN Get(locations[1], "uri", "") ELSE "",
         description |-> Get(result, "message", "No description"),
         fixed_version |-> "See report for details"]

RECURSIVE SarifResults(_)
\* for run in runs: for result in run.get("results", []), in order
SarifResults(runs) ==
    IF runs = <<>> THEN <<>>
    ELSE Get(Head(runs), "results", <<>>) \o SarifResults(Tail(runs))

\* severity_count.get(key, 0) after the loop
SeverityCount(rs, key) ==
    Len(SelectSeq(rs, LAMBDA result : SarifSeverity(result) = key))

\* the value returned when the file does not exist, and before any call
NoData == [critical |-> 0, high |-> 0, medium |-> 0, low |-> 0, findings |-> <<>>]

\* parse_trivy_sarif on a report that loaded as a JSON object
parse_trivy_sarif(sarif_data) ==
    LET rs == SarifResults(Get(sarif_data, "runs", <<>>))
    IN  [critical |-> SeverityCount(rs, "critical"),
         high |-> SeverityCount(rs, "high"),
         medium |-> SeverityCount(rs, "medium"),
         low |-> SeverityCount(rs, "low"),
         findings |-> Prefix([i \in 1..Len(rs) |-> SarifFinding(rs[i])], TopFindings)]

-----------------------------------------------------------------------------
(* The pipeline, the store and the reader *)

\* a file of the working tree: absent, or present with its text
Missing == [exists |-> FALSE, text |-> <<>>]
File(text) == [exists |-> TRUE, text |-> text]

Manifests == {Req, SubReq}

\* target_file.with_suffix('.txt.backup')
BackupPath(p) ==
    CASE p = Req    -> "requirements.txt.backup"
      [] p = SubReq -> "sub/requirements.txt.backup"

AllPaths == Manifests \cup {BackupPath(p) : p \in Manifests}

FixIdle ==
    /\ fs = [p \in AllPaths |-> Missing]
    /\ fpc = "idle"
    /\ req = [op |-> "none"]
    /\ content = <<>>
    /\ todo = <<>>
    /\ fixed_count = 0
    /\ results = <<>>
    /\ outcome = [kind |-> "none"]
    /\ pre = [p \in AllPaths |-> Missing]
    /\ log = <<>>
    /\ calls = 0
    /\ faults = 0

ScanIdle ==
    /\ spc = "init"
    /\ exit_code = -1
    /\ resolvable = Required
    /\ invoked = {}
    /\ trivy_out = NoProc
    /\ gitleaks_out = NoProc
    /\ trivy_vulns = <<>>
    /\ gitleaks_vulns = <<>>

ReadIdle ==
    /\ rpc = "idle"
    /\ r_scan = NoRow
    /\ r_vulns = <<>>

\* a connection on which no request was served yet
NoContext(tree) ==
    [fpc |-> "idle", req |-> [op |-> "none"], content |-> <<>>, todo |-> <<>>,
     fixed_count |-> 0, results |-> <<>>, outcome |-> [kind |-> "none"],
     pre |-> tree, log |-> <<>>]

ArtIdle ==
    /\ apc = "idle"
    /\ sarif = [tag |-> "none"]
    /\ dep_data = NoData

Init ==
    /\ ScanIdle
    /\ db_state = "absent"
    /\ db = EmptyRows
    /\ tx = EmptyRows
    /\ scans0 = 0
    /\ saved = [i \in 1..MaxScans |-> <<>>]
    /\ ReadIdle
    /\ FixIdle
    /\ ArtIdle
    /\ parked = NoContext(fs)

Next ==
    \/ Construct
    \/ setup_database
    \/ TargetCheck
    \/ check_dependencies
    \/ ScanTrivy
    \/ ScanGitleaks
    \/ SaveScan
    \/ InsertVuln
    \/ Commit
    \/ Interrupt
    \/ NewRun
    \/ ReadScan
    \/ ReadVulns
    \/ ReadDone

Spec == Init /\ [][Next]_vars

-----------------------------------------------------------------------------
(* Claims about the pipeline, the store and the reader *)

\* a stored row carries the finding it was written from
SameFinding(row, vuln) ==
    /\ row.scan_type = vuln.scan_type
    /\ row.severity = vuln.severity
    /\ row.package = vuln.package
    /\ row.vulnerability = vuln.vulnerability
    /\ row.description = vuln.description
    /\ row.file = vuln.file
    /\ row.line = vuln.line
    /\ row.installed_version = Get(vuln, "installed_version", <<>>)
    /\ row.fixed_version = Get(vuln, "fixed_version", <<>>)

\* the rows are exactly the findings, one row per finding
RowsCarry(rows, findings) ==
    /\ Len(rows) = Len(findings)
    /\ \A i \in 1..Len(rows) : SameFinding(rows[i], findings[i])

\* C1: whatever a reader can see of the store, and whatever a finished read
\* has fetched, holds for each ScanRun all the findings handed to its save:
\* never a ScanRun with a partial or missing Finding set, also while
\* save_results is between its INSERTs or was interrupted before the commit.
C1_AtomicSave ==
    /\ \A i \in 1..Len(Visible(db, tx).scans) :
          LET scan == Visible(db, tx).scans[i]
          IN  RowsCarry(VulnsOf(Visible(db, tx).vulns, scan.id), saved[scan.id])
    /\ ReadReturned => RowsCarry(r_vulns, saved[r_scan.id])

\* a read returned the first scan whole while the second save was between
\* two of its INSERTs
C1_Witness ==
    /\ ReadReturned
    /\ r_scan.id = 1
    /\ Len(r_vulns) >= 2
    /\ spc = "insert"
    /\ Len(tx.vulns) >= 1
    /\ Len(tx.vulns) < Len(all_vulns(trivy_vulns, gitleaks_vulns))

C2_Inv ==
    /\ \A i \in 1..Len(db.scans) :
          LET n == Len(VulnsOf(db.vulns, db.scans[i].id))
          IN  /\ db.scans[i].status = "FAILED" <=> n > 0
              /\ db.scans[i].status = "PASSED" <=> n = 0
    /\ ReadReturned =>
          LET res == get_latest_scan(r_scan, r_vulns)
          IN  /\ res.status = "FAILED" <=> res.total_vulnerabilities > 0
              /\ res.status = "PASSED" <=> res.total_vulnerabilities = 0
              /\ res.status = db.scans[r_scan.id].status

C2_Stable ==
    \A i \in 1..Len(db.scans) :
        /\ db'.scans[i] = db.scans[i]
        /\ VulnsOf(db'.vulns, db.scans[i].id) = VulnsOf(db.vulns, db.scans[i].id)

\* C2: every ScanRun of the store is FAILED iff it owns at least one Finding
\* and PASSED iff it owns none, a read returns that status, and no step
\* changes a stored ScanRun or the Findings it owns (repeated reads agree).
C2_StatusDerived == []C2_Inv /\ [][C2_Stable]_vars

\* a PASSED scan and a FAILED scan are stored and the FAILED one was read
C2_Witness ==
    /\ Len(db.scans) = 2
    /\ db.scans[1].status = "PASSED"
    /\ db.scans[2].status = "FAILED"
    /\ ReadReturned
    /\ r_scan.id = 2

\* the findings of a returned result, in the shape they were saved in, the
\* assigned ids left out
ReturnedFindings(res) ==
    [i \in 1..Len(res.dependencies) |->
        LET d == res.dependencies[i]
        IN  [scan_type |-> "dependency", severity |-> d.severity,
             package |-> d.package, vulnerability |-> d.cve,
             description |-> d.description, file |-> d.file, line |-> d.line,
             installed_version |-> d.installed_version,
             fixed_version |-> d.fixed_version]]
    \o
    [i \in 1..Len(res.secrets) |->
        LET x == res.secrets[i]
        IN  [scan_type |-> "secret", severity |-> x.severity,
             package |-> x.type, description |-> x.description,
             file |-> x.file, line |-> x.line]]

\* C3: a read of the latest scan returns findings that are, as a set and in
\* number, the findings saved for that scan: none dropped, duplicated or
\* altered.
C3_RoundTrip ==
    ReadReturned =>
        LET returned == ReturnedFindings(get_latest_scan(r_scan, r_vulns))
        IN  /\ Len(returned) = Len(saved[r_scan.id])
            /\ Range(returned) = Range(saved[r_scan.id])

\* the run has left pre-flight behind
PastPreflight == spc \notin {"init", "setup", "scan", "deps"}

\* C7: a run whose pre-flight found a required tool unresolvable has exited
\* with a non-zero status, invoked no adapter and written no row.
C7_PreflightAbort ==
    (PastPreflight /\ resolvable # Required) =>
        /\ spc = "exited"
        /\ exit_code > 0
        /\ invoked = {}
        /\ tx = EmptyRows
        /\ Len(db.scans) = scans0

\* a run aborted in pre-flight with gitleaks alone missing, a scan stored before
C7_Witness ==
    /\ spc = "exited"
    /\ resolvable = {"trivy"}
    /\ Len(db.scans) = 1

\* the adapter failed: timeout, or output that does not parse to its shape
AdapterFailed(proc, shape) ==
    \/ proc.timeout
    \/ proc.stdout.tag = "garbage"
    \/ proc.stdout.tag = "json" /\ proc.stdout.data.t # shape

RECURSIVE EntryCount(_)
\* the vulnerability entries of a trivy report
EntryCount(groups) ==
    IF groups = <<>> THEN 0
    ELSE Len(Get(Head(groups), "Vulnerabilities", <<>>)) + EntryCount(Tail(groups))

\* the entries an adapter's output holds
Reported(proc, shape) ==
    IF AdapterFailed(proc, shape) \/ proc.stdout.tag = "empty" THEN 0
    ELSE IF shape = "list" THEN Len(proc.stdout.data.v)
    ELSE EntryCount(Get(proc.stdout.data.v, "Results", <<>>))

\* C8: past pre-flight no outcome of an adapter stops the run (it can always
\* take its next step, and only an operator abort ends it early); a finished
\* run has stored exactly one ScanRun, a failed adapter contributed nothing,
\* an adapter that produced output contributed every entry whatever its exit
\* code, and every finding of both adapters is stored.
C8_AdapterIsolation ==
    /\ spc \in {"trivy", "gitleaks", "save", "insert"} =>
          ENABLED (ScanTrivy \/ ScanGitleaks \/ SaveScan \/ InsertVuln \/ Commit)
    /\ (spc = "exited" /\ invoked # {}) => exit_code = 130
    /\ "gitleaks" \in invoked =>
          /\ Len(trivy_vulns) = Reported(trivy_out, "obj")
          /\ Len(gitleaks_vulns) = Reported(gitleaks_out, "list")
    /\ spc = "done" =>
          /\ Len(db.scans) = scans0 + 1
          /\ RowsCarry(VulnsOf(db.vulns, scans0 + 1), trivy_vulns \o gitleaks_vulns)

\* a finished run whose dependency adapter timed out stored both leaks of the
\* secret adapter, which exited with code 1
C8_Witness ==
    /\ spc = "done"
    /\ trivy_out.timeout
    /\ ~gitleaks_out.timeout
    /\ gitleaks_out.returncode = 1
    /\ Len(VulnsOf(db.vulns, scans0 + 1)) = 2

\* a read starts: the existence test and the first SELECT
ReadStarts == rpc = "idle" /\ rpc' # "idle"

\* a read ends: the second SELECT
ReadEnds == rpc = "fetched" /\ rpc' = "returned"

\* what the step of a read owes its caller
LatestStep ==
    /\ ReadStarts =>
          /\ rpc' # "raised"
          /\ IF db.scans = <<>>
             THEN rpc' = "returned" /\ r_scan' = NoRow
             ELSE /\ r_scan' \in Range(db.scans)
                  /\ \A i \in 1..Len(db.scans) : db.scans[i].id <= r_scan'.id
    /\ ReadEnds =>
          /\ r_scan' = r_scan
          /\ \A i \in 1..Len(db.vulns) :
                (db.vulns[i].scan_id = r_scan.id) <=> (db.vulns[i] \in Range(r_vulns'))
          /\ \A i \in 1..Len(r_vulns') : r_vulns'[i].scan_id = r_scan.id

\* C17: a read returns the ScanRun with the highest id and exactly the
\* Findings that scan owns, and returns the no-data result, never raising,
\* when the store is absent or holds no ScanRun.
C17_Latest == [][LatestStep]_vars

-----------------------------------------------------------------------------
(* The two normalisers on their own: inputs drawn from bounded sets *)

\* every sequence over S of length at most n
SeqsUpTo(S, n) == UNION {[1..k -> S] : k \in 0..n}

NormVulns == {VulnFull, VulnLower, VulnBare}

\* result groups: a target with no vulnerability array, or with one
NormGroups ==
    {[Target |-> Req]} \cup
    {[Target |-> Req, Vulnerabilities |-> vs] : vs \in SeqsUpTo(NormVulns, MaxVulns)}

\* dependency-scanner reports, stdout and exit code
TrivyInputs ==
    {Timeout, Output(2, Garbage), Output(0, EmptyOut), Output(0, Json("list", <<>>)),
     Output(0, Json("obj", [SchemaVersion |-> 2]))}
    \cup {Output(1, Json("obj", [Results |-> gs])) : gs \in SeqsUpTo(NormGroups, MaxGroups)}

Letters ==
    <<"a", "b", "c", "d", "e", "f", "g", "h", "i", "j", "k", "l", "m", "n",
      "o", "p", "q", "r", "s", "t", "u", "v", "w", "x", "y", "z">>

\* leak records: a secret text of every length up to the bound, scenario B's
\* record, and a record with no matched text
NormLeaks ==
    {[RuleID |-> <<"r">>, Description |-> "Token", File |-> AppPy,
      StartLine |-> "3", Secret |-> SubSeq(Letters, 1, n)] : n \in 0..MaxSecretLen}
    \cup {LeakStripe, [RuleID |-> <<"r">>, File |-> AppPy]}

\* secret-scanner reports, stdout and exit code
GitleaksInputs ==
    {Timeout, Output(1, Garbage), Output(0, EmptyOut), Output(0, Json("obj", [x |-> 0]))}
    \cup {Output(1, Json("list", ls)) : ls \in SeqsUpTo(NormLeaks, MaxVulns)}

\* run_trivy on a drawn report
NormTrivy ==
    /\ spc = "init"
    /\ \E proc \in TrivyInputs :
        /\ trivy_out' = proc
        /\ trivy_vulns' = run_trivy(proc)
    /\ invoked' = {"trivy"}
    /\ spc' = "normalised"
    /\ UNCHANGED <<exit_code, resolvable, gitleaks_out, gitleaks_vulns>>
    /\ UNCHANGED <<storeVars, readVars, fixVars, artVars, loopVars>>

\* run_gitleaks on a drawn report
NormGitleaks ==
    /\ spc = "init"
    /\ \E proc \in GitleaksInputs :
        /\ gitleaks_out' = proc
        /\ gitleaks_vulns' = run_gitleaks(proc)
    /\ invoked' = {"gitleaks"}
    /\ spc' = "normalised"
    /\ UNCHANGED <<exit_code, resolvable, trivy_out, trivy_vulns>>
    /\ UNCHANGED <<storeVars, readVars, fixVars, artVars, loopVars>>

\* the next report
NormReset ==
    /\ spc = "normalised"
    /\ spc' = "init"
    /\ invoked' = {}
    /\ trivy_out' = NoProc
    /\ gitleaks_out' = NoProc
    /\ trivy_vulns' = <<>>
    /\ gitleaks_vulns' = <<>>
    /\ UNCHANGED <<exit_code, resolvable>>
    /\ UNCHANGED <<storeVars, readVars, fixVars, artVars, loopVars>>

NextNorm == NormTrivy \/ NormGitleaks \/ NormReset

SpecNorm == Init /\ [][NextNorm]_vars

-----------------------------------------------------------------------------
(* Claims about the normalisers *)

RECURSIVE Entries(_)
\* the vulnerability entries of a report, group after group
Entries(groups) ==
    IF groups = <<>> THEN <<>>
    ELSE Get(Head(groups), "Vulnerabilities", <<>>) \o Entries(Tail(groups))

\* the report parsed to a JSON object
ValidTrivy(proc) ==
    ~proc.timeout /\ proc.stdout.tag = "json" /\ proc.stdout.data.t = "obj"

\* C9: every entry of every vulnerability array of a valid report yields
\* exactly one Finding, of scan_type dependency, whose severity is the
\* reported severity uppercased, a member of the closed set when the
\* reported word uppercased is one.
C9_DependencyNormalised ==
    ("trivy" \in invoked /\ ValidTrivy(trivy_out)) =>
        LET es == Entries(Get(trivy_out.stdout.data.v, "Results", <<>>))
        IN  /\ Len(trivy_vulns) = Len(es)
            /\ \A i \in 1..Len(es) :
                  /\ trivy_vulns[i].scan_type = "dependency"
                  /\ "Severity" \in DOMAIN es[i] =>
                        /\ trivy_vulns[i].severity = Upper(es[i].Severity)
                        /\ Upper(es[i].Severity) \in Canonical =>
                              trivy_vulns[i].severity \in Canonical

\* the report parsed to a JSON array
ValidGitleaks(proc) ==
    ~proc.timeout /\ proc.stdout.tag = "json" /\ proc.stdout.data.t = "list"

\* the description is the label, then some characters, then the marker
Embedded(description) == SubSeq(description, 2, Len(description) - 1)

\* C10: every leak of a secret report yields exactly one Finding, of
\* scan_type secret and severity CRITICAL, whose description ends in the
\* truncation marker and embeds before it a prefix of the secret text of at
\* most 20 characters (the first 20 when the secret has that many).
C10_SecretNormalised ==
    ("gitleaks" \in invoked /\ ValidGitleaks(gitleaks_out)) =>
        LET ls == gitleaks_out.stdout.data.v
        IN  /\ Len(gitleaks_vulns) = Len(ls)
            /\ \A i \in 1..Len(ls) :
                  LET f == gitleaks_vulns[i]
                      raw == Get(ls[i], "Secret", <<>>)
                      e == Embedded(f.description)
                  IN  /\ f.scan_type = "secret"
                      /\ f.severity = "CRITICAL"
                      /\ Len(f.description) >= 2
                      /\ f.description[Len(f.description)] = "..."
                      /\ Len(e) <= SecretPrefix
                      /\ Len(e) <= Len(raw)
                      /\ \A j \in 1..Len(e) : e[j] = raw[j]
                      /\ Len(raw) >= SecretPrefix => Len(e) = SecretPrefix

\* scenario B: the 24-character secret is embedded as its first 20 characters
C10_Witness ==
    /\ "gitleaks" \in invoked
    /\ ValidGitleaks(gitleaks_out)
    /\ gitleaks_out.stdout.data.v = <<LeakStripe>>
    /\ gitleaks_vulns[1].file = AppPy
    /\ gitleaks_vulns[1].line = "12"
    /\ gitleaks_vulns[1].severity = "CRITICAL"
    /\ Embedded(gitleaks_vulns[1].description) = SubSeq(StripeSecret, 1, 20)

-----------------------------------------------------------------------------
(* Text operations of the remediation handlers *)

\* f"{package}=={version}"
PinLine(package, version) == package \o <<"=", "=">> \o version

StartsWith(s, t) == Len(t) <= Len(s) /\ SubSeq(s, 1, Len(t)) = t

\* old in content
Contains(s, sub) ==
    \E i \in 1..(Len(s) - Len(sub) + 1) : SubSeq(s, i, i + Len(sub) - 1) = sub

RECURSIVE Replace(_, _, _)
\* content.replace(old, new): every non-overlapping occurrence, left to right
Replace(s, old, new) ==
    IF Len(s) < Len(old) THEN s
    ELSE IF StartsWith(s, old)
         THEN new \o Replace(SubSeq(s, Len(old) + 1, Len(s)), old, new)
    ELSE <<Head(s)>> \o Replace(Tail(s), old, new)

RECURSIVE SplitLines(_)
\* the lines of a text: the stretches between newlines
SplitLines(s) ==
    IF \A i \in 1..Len(s) : s[i] # "\n" THEN <<s>>
    ELSE LET k == CHOOSE i \in 1..Len(s) :
                      s[i] = "\n" /\ \A j \in 1..(i - 1) : s[j] # "\n"
         IN  <<SubSeq(s, 1, k - 1)>> \o SplitLines(SubSeq(s, k + 1, Len(s)))

RECURSIVE JoinLines(_)
JoinLines(ls) ==
    IF Len(ls) = 1 THEN ls[1]
    ELSE ls[1] \o <<"\n">> \o JoinLines(Tail(ls))

\* the pattern ^{re.escape(package)}==.*$ under re.MULTILINE matches a line
LineMatches(line, package) == StartsWith(line, package \o <<"=", "=">>)

\* re.sub(pattern, new_line, content, flags=re.MULTILINE)
ReSub(package, new_line, text) ==
    LET ls == SplitLines(text)
    IN  JoinLines([i \in 1..Len(ls) |->
                      IF LineMatches(ls[i], package) THEN new_line ELSE ls[i]])

\* fix_vulnerability 206-220: the text written back
Updated(text, package, installed_version, fixed_version) ==
    LET old_line == PinLine(package, installed_version)
        new_line == PinLine(package, fixed_version)
    IN  IF installed_version # <<>>
        THEN IF Contains(text, old_line)
             THEN Replace(text, old_line, new_line)
             ELSE text
        ELSE ReSub(package, new_line, text)

RECURSIVE BulkUpdated(_, _)
\* fix_all_vulnerabilities 286-291: a fix with no installed version is skipped
BulkUpdated(text, fixes) ==
    IF fixes = <<>> THEN text
    ELSE LET fix == Head(fixes)
             next == IF fix.installed # <<>>
                     THEN Replace(text, PinLine(fix.package, fix.installed),
                                  PinLine(fix.package, fix.fixed))
                     ELSE text
         IN  BulkUpdated(next, Tail(fixes))

\* fixed_count += 1 for every fix with an installed version
BulkCount(fixes) == Len(SelectSeq(fixes, LAMBDA fix : fix.installed # <<>>))

\* a plausible slip: the backup written after the replacement was computed
BackupText_after(text, updated) == updated

\* the text written to the backup: the content as read (app.py 202-204, 281-283)
BackupText(text, updated) == text

\* what a failed write leaves in a file it had opened: open(path, 'w') has
\* truncated it and the buffered text never reached it
Torn(text) == {<<>>}

-----------------------------------------------------------------------------
(* fix_vulnerability: POST /api/fix/{vuln_id} *)

\* SELECT ... FROM vulnerabilities WHERE id = ?
RowById(rows, id) == SelectSeq(rows, LAMBDA v : v.id = id)

Error(msg) == [kind |-> "error", error |-> msg]

\* the row of the request being handled
FixRow == RowById(db.vulns, req.vuln_id)[1]

\* the text fix_vulnerability writes back for the request being handled
FixUpdated ==
    Updated(content, FixRow.package, FixRow.installed_version, FixRow.fixed_version)

\* the handler returns: its locals are gone
Return(result) ==
    /\ fpc' = "idle"
    /\ outcome' = result
    /\ content' = <<>>
    /\ todo' = <<>>
    /\ fixed_count' = 0
    /\ results' = <<>>

\* open() or write() raises (the except branches, app.py 233, 303)
Fault == faults < MaxFaults /\ faults' = faults + 1
NoFault == faults' = faults

\* a request arrives
Arrive(request) ==
    /\ fpc = "idle"
    /\ calls < MaxCalls
    /\ calls' = calls + 1
    /\ req' = request
    /\ pre' = fs
    /\ log' = <<>>

\* lines 169-200: the lookups, the negative outcomes, the read of the manifest
fix_lookup ==
    /\ \E id \in 1..(Len(db.vulns) + 1) : Arrive([op |-> "fix", vuln_id |-> id])
    /\ UNCHANGED fs
    /\ LET found == RowById(db.vulns, req'.vuln_id)
       IN  IF db_state = "absent"
           THEN Return(Error("No scan database found")) /\ NoFault
           ELSE IF db_state = "file"
           THEN Return(Error("raised")) /\ NoFault
           ELSE IF found = <<>>
           THEN Return(Error("Vulnerability not found")) /\ NoFault
           ELSE IF found[1].fixed_version = <<>>
           THEN Return(Error("No fix version available")) /\ NoFault
           ELSE IF found[1].file \notin Manifests \/ ~fs[found[1].file].exists
           THEN Return(Error("File not found")) /\ NoFault
           ELSE \/ /\ fpc' = "backup"
                   /\ content' = fs[found[1].file].text
                   /\ outcome' = [kind |-> "none"]
                   /\ NoFault
                   /\ UNCHANGED <<todo, fixed_count, results>>
                \/ Return(Error("exception")) /\ Fault
    /\ UNCHANGED <<scanVars, storeVars, readVars, artVars, loopVars>>

\* lines 202-204: the backup
fix_backup ==
    /\ fpc = "backup"
    /\ LET bak == BackupPath(FixRow.file)
           text == BackupText(content, FixUpdated)
       IN  \/ /\ fs' = [fs EXCEPT ![bak] = File(text)]
              /\ log' = Append(log, bak)
              /\ fpc' = "write"
              /\ NoFault
              /\ UNCHANGED <<content, todo, fixed_count, results, outcome>>
           \/ /\ UNCHANGED <<fs, log>>
              /\ Return(Error("exception"))
              /\ Fault
           \/ \E part \in Torn(text) :
              /\ fs' = [fs EXCEPT ![bak] = File(part)]
              /\ log' = Append(log, bak)
              /\ Return(Error("exception"))
              /\ Fault
    /\ UNCHANGED <<req, pre, calls>>
    /\ UNCHANGED <<scanVars, storeVars, readVars, artVars, loopVars>>

\* lines 206-232: the replacement, the write, the report
fix_write ==
    /\ fpc = "write"
    /\ LET row == FixRow
       IN  \/ /\ fs' = [fs EXCEPT ![row.file] = File(FixUpdated)]
              /\ log' = Append(log, row.file)
              /\ Return([kind |-> "success", package |-> row.package,
                         old_version |-> row.installed_version,
                         new_version |-> row.fixed_version, file |-> row.file,
                         backup |-> BackupPath(row.file)])
              /\ NoFault
           \/ /\ UNCHANGED <<fs, log>>
              /\ Return(Error("exception"))
              /\ Fault
           \/ \E part \in Torn(FixUpdated) :
              /\ fs' = [fs EXCEPT ![row.file] = File(part)]
              /\ log' = Append(log, row.file)
              /\ Return(Error("exception"))
              /\ Fault
    /\ UNCHANGED <<req, pre, calls>>
    /\ UNCHANGED <<scanVars, storeVars, readVars, artVars, loopVars>>

-----------------------------------------------------------------------------
(* fix_all_vulnerabilities: POST /api/fix-all *)

\* file LIKE '%requirements.txt%', over the paths the scanner reports
LikeRequirements(file) == file \in {Req, SubReq}

\* a plausible slip: the WHERE clause without the test of fixed_version
Fixable_unfiltered(rows) == SelectSeq(rows, LAMBDA v : LikeRequirements(v.file))

\* WHERE fixed_version != '' AND fixed_version IS NOT NULL AND file LIKE ...
Fixable(rows) ==
    SelectSeq(rows, LAMBDA v : v.fixed_version # <<>> /\ LikeRequirements(v.file))

RECURSIVE GroupByFile(_, _)
\* files_to_fix: one list of fixes per file, files in order of first appearance
GroupByFile(rows, groups) ==
    IF rows = <<>> THEN groups
    ELSE LET v == Head(rows)
             fix == [package |-> v.package, installed |-> v.installed_version,
                     fixed |-> v.fixed_version]
         IN  IF \E i \in 1..Len(groups) : groups[i].file = v.file
             THEN GroupByFile(Tail(rows),
                      [i \in 1..Len(groups) |->
                          IF groups[i].file = v.file
                          THEN [groups[i] EXCEPT !.fixes = Append(@, fix)]
                          ELSE groups[i]])
             ELSE GroupByFile(Tail(rows),
                      Append(groups, [file |-> v.file, fixes |-> <<fix>>]))

\* lines 240-269: the selection and the grouping
bulk_select ==
    /\ Arrive([op |-> "fix_all"])
    /\ UNCHANGED <<fs, faults>>
    /\ IF db_state = "absent"
       THEN Return(Error("No scan database found"))
       ELSE IF db_state = "file"
       THEN Return(Error("raised"))
       ELSE IF Fixable(db.vulns) = <<>>
       THEN Return(Error("No fixable vulnerabilities found"))
       ELSE /\ fpc' = "bulk_file"
            /\ todo' = GroupByFile(Fixable(db.vulns), <<>>)
            /\ fixed_count' = 0
            /\ results' = <<>>
            /\ outcome' = [kind |-> "none"]
            /\ UNCHANGED content
    /\ UNCHANGED <<scanVars, storeVars, readVars, artVars, loopVars>>

\* the loop moves on to the next file
NextFile(entries) ==
    /\ fpc' = "bulk_file"
    /\ todo' = Tail(todo)
    /\ results' = results \o entries
    /\ content' = <<>>

\* lines 271-279: the next file of the loop: skipped when absent, else read
bulk_file ==
    /\ fpc = "bulk_file"
    /\ todo # <<>>
    /\ LET file == Head(todo).file
       IN  IF ~fs[file].exists
           THEN NextFile(<<>>) /\ NoFault
           ELSE \/ /\ fpc' = "bulk_backup"
                   /\ content' = fs[file].text
                   /\ NoFault
                   /\ UNCHANGED <<todo, results>>
                \/ NextFile(<<[file |-> file, error |-> "exception"]>>) /\ Fault
    /\ UNCHANGED <<fs, req, fixed_count, outcome, pre, log, calls>>
    /\ UNCHANGED <<scanVars, storeVars, readVars, artVars, loopVars>>

\* lines 281-283: one backup for the file
bulk_backup ==
    /\ fpc = "bulk_backup"
    /\ LET file == Head(todo).file
           bak == BackupPath(file)
           text == BackupText(content, BulkUpdated(content, Head(todo).fixes))
       IN  \/ /\ fs' = [fs EXCEPT ![bak] = File(text)]
              /\ log' = Append(log, bak)
              /\ fpc' = "bulk_write"
              /\ NoFault
              /\ UNCHANGED <<content, todo, results>>
           \/ /\ UNCHANGED <<fs, log>>
              /\ NextFile(<<[file |-> file, error |-> "exception"]>>)
              /\ Fault
           \/ \E part \in Torn(text) :
              /\ fs' = [fs EXCEPT ![bak] = File(part)]
              /\ log' = Append(log, bak)
              /\ NextFile(<<[file |-> file, error |-> "exception"]>>)
              /\ Fault
    /\ UNCHANGED <<req, fixed_count, outcome, pre, calls>>
    /\ UNCHANGED <<scanVars, storeVars, readVars, artVars, loopVars>>

\* lines 285-307: every fix of the group applied, counted, the file written
bulk_write ==
    /\ fpc = "bulk_write"
    /\ LET file == Head(todo).file
           fixes == Head(todo).fixes
           updated_content == BulkUpdated(content, fixes)
       IN  /\ fixed_count' = fixed_count + BulkCount(fixes)
           /\ \/ /\ fs' = [fs EXCEPT ![file] = File(updated_content)]
                 /\ log' = Append(log, file)
                 /\ NextFile(<<[file |-> file, fixes_applied |-> Len(fixes),
                                backup |-> BackupPath(file)]>>)
                 /\ NoFault
              \/ /\ UNCHANGED <<fs, log>>
                 /\ NextFile(<<[file |-> file, error |-> "exception"]>>)
                 /\ Fault
              \/ \E part \in Torn(updated_content) :
                 /\ fs' = [fs EXCEPT ![file] = File(part)]
                 /\ log' = Append(log, file)
                 /\ NextFile(<<[file |-> file, error |-> "exception"]>>)
                 /\ Fault
    /\ UNCHANGED <<req, outcome, pre, calls>>
    /\ UNCHANGED <<scanVars, storeVars, readVars, artVars, loopVars>>

\* lines 309-313: the report
bulk_return ==
    /\ fpc = "bulk_file"
    /\ todo = <<>>
    /\ Return([kind |-> "success", total_fixed |-> fixed_count,
               files_updated |-> results])
    /\ UNCHANGED <<fs, req, pre, log, calls, faults>>
    /\ UNCHANGED <<scanVars, storeVars, readVars, artVars, loopVars>>

-----------------------------------------------------------------------------
(* The event loop: uvicorn.run(app) serves every connection on one loop *)

\* a plausible slip: handlers declared with def, which FastAPI runs on
\* threads of a pool, so that a handler can be preempted between statements
Yields_threadpool(pc) == TRUE

\* whether a handler at pc can be suspended in favour of another: both
\* handlers are declared async def and hold no await (app.py 166-234,
\* 237-313), so a started handler runs to its return
Yields(pc) == FALSE

\* the state of the handler being served
Context ==
    [fpc |-> fpc, req |-> req, content |-> content, todo |-> todo,
     fixed_count |-> fixed_count, results |-> results, outcome |-> outcome,
     pre |-> pre, log |-> log]

\* the loop turns to the other connection: only when the handler it serves
\* has returned or can be suspended
Dispatch ==
    /\ fpc = "idle" \/ Yields(fpc)
    /\ parked' = Context
    /\ fpc' = parked.fpc
    /\ req' = parked.req
    /\ content' = parked.content
    /\ todo' = parked.todo
    /\ fixed_count' = parked.fixed_count
    /\ results' = parked.results
    /\ outcome' = parked.outcome
    /\ pre' = parked.pre
    /\ log' = parked.log
    /\ UNCHANGED <<fs, calls, faults>>
    /\ UNCHANGED <<scanVars, storeVars, readVars, artVars>>

-----------------------------------------------------------------------------
(* The remediation handlers over a store the pipeline has filled *)

VulnPrefix ==
    [PkgName |-> <<"f">>, Severity |-> "HIGH", VulnerabilityID |-> "CVE-5",
     Title |-> <<"t">>, InstalledVersion |-> <<"1">>, FixedVersion |-> <<"1", "1">>]
VulnNoInstalled ==
    [PkgName |-> <<"f">>, Severity |-> "MEDIUM", VulnerabilityID |-> "CVE-6",
     Title |-> <<"t">>, FixedVersion |-> <<"2">>]

FixVulnList == <<VulnFull, VulnPrefix, VulnNoInstalled, VulnNoFix>>

\* the selections of at most n elements of a list, in the order of the list
Selections(list, n) ==
    {q \in SeqsUpTo(Range(list), n) :
        \E pos \in [1..Len(q) -> 1..Len(list)] :
            /\ \A i \in 1..Len(q) : q[i] = list[pos[i]]
            /\ \A i, j \in 1..Len(q) : i < j => pos[i] < pos[j]}

\* the reports of the scan that filled the store
FixTrivyProcs ==
    {Output(1, Json("obj", [Results |-> <<[Target |-> Req, Vulnerabilities |-> vs]>> \o more])) :
        vs \in Selections(FixVulnList, MaxFindings),
        more \in {<<>>, <<[Target |-> SubReq, Vulnerabilities |-> <<VulnFull>>]>>}}

FixGitleaksProc == Output(1, Json("list", <<LeakShort>>))

\* the pinned packages and versions of the manifests
PinLines ==
    <<PinLine(<<"f">>, <<"1">>), PinLine(<<"f">>, <<"2">>),
      PinLine(<<"f">>, <<"1", "1">>), PinLine(<<"m", "f">>, <<"1">>)>>

RECURSIVE Terminated(_)
\* the text of a manifest: every line ended by a newline
Terminated(ls) ==
    IF ls = <<>> THEN <<>> ELSE Head(ls) \o <<"\n">> \o Terminated(Tail(ls))

ManifestTexts ==
    {Terminated(ls) : ls \in Selections(PinLines, MaxLines)}

\* a scan has run to its end, or none ever ran; the working tree holds
\* requirements.txt and perhaps sub/requirements.txt
InitFix ==
    /\ \/ /\ \E tp \in FixTrivyProcs :
               /\ trivy_out = tp
               /\ trivy_vulns = run_trivy(tp)
          /\ gitleaks_out = FixGitleaksProc
          /\ gitleaks_vulns = run_gitleaks(FixGitleaksProc)
          /\ spc = "done"
          /\ exit_code = 0
          /\ invoked = Required
          /\ db_state = "ready"
          /\ db = save_results(EmptyRows, trivy_vulns, gitleaks_vulns)
          /\ saved = [i \in 1..MaxScans |->
                         IF i = 1 THEN all_vulns(trivy_vulns, gitleaks_vulns) ELSE <<>>]
       \/ /\ ScanIdle
          /\ db_state = "absent"
          /\ db = EmptyRows
          /\ saved = [i \in 1..MaxScans |-> <<>>]
    /\ resolvable = Required
    /\ tx = EmptyRows
    /\ scans0 = 0
    /\ ReadIdle
    /\ \E text \in ManifestTexts, sub \in {Missing, File(Terminated(<<PinLine(<<"f">>, <<"1">>)>>))} :
          fs = [p \in AllPaths |->
                   IF p = Req THEN File(text) ELSE IF p = SubReq THEN sub ELSE Missing]
    /\ fpc = "idle"
    /\ req = [op |-> "none"]
    /\ content = <<>>
    /\ todo = <<>>
    /\ fixed_count = 0
    /\ results = <<>>
    /\ outcome = [kind |-> "none"]
    /\ pre = fs
    /\ log = <<>>
    /\ calls = 0
    /\ faults = 0
    /\ ArtIdle
    /\ parked = NoContext(fs)

NextFix ==
    \/ fix_lookup
    \/ fix_backup
    \/ fix_write
    \/ bulk_select
    \/ bulk_file
    \/ bulk_backup
    \/ bulk_write
    \/ bulk_return

SpecFix == InitFix /\ [][NextFix]_vars

\* two clients: the store holds two fixable findings of requirements.txt and
\* one of sub/requirements.txt, and both manifests exist
InitConc ==
    /\ InitFix
    /\ db_state = "ready"
    /\ Get(trivy_out.stdout.data.v.Results[1], "Vulnerabilities", <<>>)
          = <<VulnFull, VulnPrefix>>
    /\ Len(trivy_out.stdout.data.v.Results) = 2
    /\ fs[SubReq].exists
    /\ \E i \in 1..Len(SplitLines(fs[Req].text)) :
          SplitLines(fs[Req].text)[i] = PinLine(<<"f">>, <<"1">>)

NextConc ==
    \/ fix_lookup
    \/ fix_backup
    \/ fix_write
    \/ bulk_select
    \/ bulk_file
    \/ bulk_backup
    \/ bulk_write
    \/ bulk_return
    \/ Dispatch

SpecConc == InitConc /\ [][NextConc]_vars

-----------------------------------------------------------------------------
(* Claims about remediation *)

Written(p) == \E i \in 1..Len(log) : log[i] = p

\* C4: whenever a single-fix or bulk-fix call has written a manifest, the
\* backup of that manifest holds the text the manifest had when the call
\* began, and the call wrote the backup before it wrote the manifest.
C4_BackupFirst ==
    \A p \in Manifests :
        Written(p) =>
            /\ pre[p].exists
            /\ fs[BackupPath(p)] = File(pre[p].text)
            /\ \E i, j \in 1..Len(log) :
                  j < i /\ log[j] = BackupPath(p) /\ log[i] = p

\* a bulk fix has rewritten both manifests, requirements.txt to a new text
C4_Witness ==
    /\ fpc = "idle"
    /\ req.op = "fix_all"
    /\ outcome.kind = "success"
    /\ Written(Req)
    /\ Written(SubReq)
    /\ fs[Req].text # pre[Req].text
    /\ fs[BackupPath(Req)].text = pre[Req].text

\* a single fix has returned success
FixSucceeded == fpc = "idle" /\ req.op = "fix" /\ outcome.kind = "success"

\* the manifest pins the package, and every line of the package is the pin
AlreadyFixed(text, package, pin) ==
    /\ \E i \in 1..Len(SplitLines(text)) : SplitLines(text)[i] = pin
    /\ \A i \in 1..Len(SplitLines(text)) :
          LineMatches(SplitLines(text)[i], package) => SplitLines(text)[i] = pin

\* C5: a single fix applied to a manifest whose line for the package already
\* is package==fixed_version leaves the manifest text as it was.
C5_Idempotent ==
    FixSucceeded =>
        LET row == FixRow
            before == pre[row.file].text
        IN  AlreadyFixed(before, row.package, PinLine(row.package, row.fixed_version))
                => fs[row.file].text = before

\* C6: a single fix leaves every line of another package as it was, whether
\* it took the exact-line path or the pattern path.
C6_OtherLinesKept ==
    FixSucceeded =>
        LET row == FixRow
            before == SplitLines(pre[row.file].text)
            after == SplitLines(fs[row.file].text)
        IN  /\ Len(after) = Len(before)
            /\ \A i \in 1..Len(before) :
                  ~LineMatches(before[i], row.package) => after[i] = before[i]

\* the single-fix call for the request has returned
FixReturned == fpc = "idle" /\ req.op = "fix"

\* the bulk-fix call for the request has returned
BulkReturned == fpc = "idle" /\ req.op = "fix_all"

\* the stored rows with the id the request names
Named == {i \in 1..Len(db.vulns) : db.vulns[i].id = req.vuln_id}

\* no stored Finding has a fixed version and a manifest as its file
NoneFixable ==
    \A i \in 1..Len(db.vulns) :
        db.vulns[i].fixed_version = <<>> \/ db.vulns[i].file \notin Manifests

\* the call of the request wrote nothing and the working tree is as it was
Untouched == log = <<>> /\ fs = pre

\* the request being handled has one of the negative outcomes ahead of it
NegativeCase ==
    /\ db_state = "ready"
    /\ \/ /\ req.op = "fix"
          /\ \/ Named = {}
             \/ \E i \in Named :
                   \/ db.vulns[i].fixed_version = <<>>
                   \/ ~pre[db.vulns[i].file].exists
       \/ req.op = "fix_all" /\ NoneFixable

\* the named failure the code reports for the negative case
NegativeOutcome ==
    IF req.op = "fix_all" THEN Error("No fixable vulnerabilities found")
    ELSE IF Named = {} THEN Error("Vulnerability not found")
    ELSE IF \E i \in Named : db.vulns[i].fixed_version = <<>>
         THEN Error("No fix version available")
    ELSE Error("File not found")

NegativeErrors ==
    {"Vulnerability not found", "No fix version available", "File not found",
     "No fixable vulnerabilities found"}

\* C12: a single fix whose finding is not stored, has no fixed version or
\* names a manifest that is absent, and a bulk fix with no fixable finding,
\* return at once with the named failure, and a call that returned one of
\* these failures has written no manifest and no backup: every file is as it
\* was when the call began.
C12_NegativeUntouched ==
    /\ NegativeCase =>
          /\ fpc = "idle"
          /\ outcome = NegativeOutcome
          /\ Untouched
    /\ (fpc = "idle" /\ outcome.kind = "error" /\ outcome.error \in NegativeErrors)
          => Untouched

\* after a fix that rewrote requirements.txt and left its backup, a single
\* fix for a finding of the absent sub/requirements.txt reports the missing file
C12_Witness ==
    /\ FixReturned
    /\ outcome = Error("File not found")
    /\ calls = 2
    /\ fs[BackupPath(Req)].exists
    /\ fs[Req].text # Terminated(<<PinLine(<<"f">>, <<"1">>)>>)
    /\ ~fs[SubReq].exists
    /\ ~fs[BackupPath(SubReq)].exists

\* the terminal state of the attempt an outcome stands for, "NONE" when it is
\* none of the four
Terminal(result) ==
    IF result.kind = "success" THEN "REWRITTEN"
    ELSE IF result.kind # "error" THEN "NONE"
    ELSE CASE result.error \in {"No scan database found", "Vulnerability not found"}
                  -> "LOOKUP_FAILED"
           [] result.error = "No fix version available" -> "NO_FIX_AVAILABLE"
           [] result.error = "File not found" -> "FILE_MISSING"
           [] OTHER -> "NONE"

\* the attempt has written its backup: the backup holds the text as read
BackedUp ==
    /\ req.op = "fix"
    /\ log # <<>>
    /\ fs[BackupPath(FixRow.file)] = File(pre[FixRow.file].text)

\* C13: a single-fix attempt that has returned is in one of LOOKUP_FAILED,
\* NO_FIX_AVAILABLE, FILE_MISSING and REWRITTEN; REWRITTEN is reached only
\* after the backup was written; and an attempt that has written its backup
\* ends REWRITTEN with the manifest holding the whole rewritten text.
C13_StateMachine ==
    FixReturned =>
        /\ Terminal(outcome) \in
              {"LOOKUP_FAILED", "NO_FIX_AVAILABLE", "FILE_MISSING", "REWRITTEN"}
        /\ Terminal(outcome) = "REWRITTEN" => BackedUp
        /\ BackedUp =>
              /\ Terminal(outcome) = "REWRITTEN"
              /\ fs[FixRow.file].text =
                     Updated(pre[FixRow.file].text, FixRow.package,
                             FixRow.installed_version, FixRow.fixed_version)

\* a handler between its first statement and its return
InFlight(ctx) == ctx.fpc # "idle"

\* the manifest a handler in flight is working on
FileOf(ctx) ==
    IF ctx.req.op = "fix" THEN RowById(db.vulns, ctx.req.vuln_id)[1].file
    ELSE Head(ctx.todo).file

\* what a handler has read is what the manifest holds, and the backup it has
\* written is the manifest as it is
Fresh(ctx) ==
    /\ ctx.fpc \in {"backup", "write", "bulk_backup", "bulk_write"} =>
          ctx.content = fs[FileOf(ctx)].text
    /\ ctx.fpc \in {"write", "bulk_write"} =>
          fs[BackupPath(FileOf(ctx))] = File(fs[FileOf(ctx)].text)

\* C14: with two clients sending single-fix and bulk-fix requests, at most
\* one handler is in flight at any time; the content a handler has read, and
\* the backup it has written, is the manifest as it stands, so no backup
\* captures the edit of another request in flight and no write replaces a
\* text other than the one it was computed from.
C14_Serialized ==
    /\ ~(InFlight(Context) /\ InFlight(parked))
    /\ Fresh(Context)
    /\ Fresh(parked)

\* the second client's request is about to write requirements.txt, which
\* the first client's finished request has rewritten
C14_Witness ==
    /\ fpc \in {"write", "bulk_write"}
    /\ FileOf(Context) = Req
    /\ parked.outcome.kind = "success"
    /\ \E i \in 1..Len(parked.log) : parked.log[i] = Req
    /\ content # parked.pre[Req].text
    /\ fs[BackupPath(Req)].text = content

\* the bulk fix has returned its report
BulkSucceeded == BulkReturned /\ outcome.kind = "success"

\* the lines of a manifest that differ between two of its texts
ChangedLines(before, after) ==
    LET b == SplitLines(before)
        a == SplitLines(after)
        common == Min(Len(b), Len(a))
    IN  Cardinality({i \in 1..common : b[i] # a[i]})
            + (Len(b) - common) + (Len(a) - common)

\* the manifest lines the call has rewritten
Rewritten(p) ==
    IF pre[p].exists /\ fs[p].exists THEN ChangedLines(pre[p].text, fs[p].text)
    ELSE 0

\* how often the call wrote path p
Writes(p) == Cardinality({i \in 1..Len(log) : log[i] = p})

\* C15: a bulk fix writes the backup of a file once whatever the number of
\* fixes of its group, and the total_fixed it returns is the number of
\* manifest lines it rewrote over all files.
C15_BulkAccounting ==
    /\ req.op = "fix_all" =>
          \A p \in Manifests :
              /\ Writes(BackupPath(p)) <= 1
              /\ Written(p) => Writes(BackupPath(p)) = 1
    /\ BulkSucceeded => outcome.total_fixed = Rewritten(Req) + Rewritten(SubReq)

\* the files of the groups the bulk fix selected
GroupFiles == {v.file : v \in Range(Fixable(db.vulns))}

\* the entries of the report for a file
EntriesFor(p) ==
    {i \in 1..Len(outcome.files_updated) : outcome.files_updated[i].file = p}

\* C16: the report of a bulk fix has an entry for every file that has fixable
\* Findings: an entry with a failure reason when the file was missing,
\* unreadable or unwritable, and every file after a failed one is processed.
C16_BulkIsolation ==
    BulkSucceeded =>
        \A p \in GroupFiles :
            /\ EntriesFor(p) # {}
            /\ ~pre[p].exists =>
                  \A i \in EntriesFor(p) : "error" \in DOMAIN outcome.files_updated[i]

\* the stored row a single-fix request names, when there is one
Target == db.vulns[CHOOSE i \in Named : TRUE]

\* a dependency Finding with a fixed version
Remediable(row) == row.scan_type = "dependency" /\ row.fixed_version # <<>>

\* C18: in a store the pipeline has filled, a secret Finding has an empty
\* fixed_version; a single fix that has written any file was asked for a
\* remediable Finding; a single fix asked for a secret Finding returns
\* no-fix-available with nothing written; and the selection of a bulk fix
\* holds remediable Findings only.
C18_Remediable ==
    /\ \A i \in 1..Len(db.vulns) :
          db.vulns[i].scan_type = "secret" => db.vulns[i].fixed_version = <<>>
    /\ (req.op = "fix" /\ (log # <<>> \/ fs # pre)) =>
          Named # {} /\ Remediable(Target)
    /\ (req.op = "fix" /\ Named # {} /\ Target.scan_type = "secret") =>
          /\ fpc = "idle"
          /\ outcome = Error("No fix version available")
          /\ Untouched
    /\ \A i \in 1..Len(Fixable(db.vulns)) : Remediable(Fixable(db.vulns)[i])
    /\ \A i \in 1..Len(todo) : \E j \in 1..Len(db.vulns) :
          Remediable(db.vulns[j]) /\ db.vulns[j].file = todo[i].file

\* after a fix that rewrote requirements.txt, a single fix asked for the
\* stored secret Finding has returned no-fix-available
C18_Witness ==
    /\ FixReturned
    /\ Named # {}
    /\ Target.scan_type = "secret"
    /\ outcome = Error("No fix version available")
    /\ calls = 2
    /\ fs[BackupPath(Req)].exists

RECURSIVE SingleFixes(_, _)
\* the text after a single fix for each fix of a group, one after another
SingleFixes(text, fixes) ==
    IF fixes = <<>> THEN text
    ELSE SingleFixes(Updated(text, Head(fixes).package, Head(fixes).installed,
                             Head(fixes).fixed),
                     Tail(fixes))

\* the fixes of the group of file p
GroupOf(p) ==
    LET gs == GroupByFile(Fixable(db.vulns), <<>>)
    IN  gs[CHOOSE i \in 1..Len(gs) : gs[i].file = p].fixes

\* C19: every manifest a bulk fix has rewritten holds the text that single
\* fixes of the Findings of its group, applied one after another to the text
\* the file had, would leave, also for Findings with no installed version.
C19_BulkAsSingle ==
    BulkSucceeded =>
        \A i \in 1..Len(outcome.files_updated) :
            LET entry == outcome.files_updated[i]
            IN  "fixes_applied" \in DOMAIN entry =>
                    fs[entry.file].text =
                        SingleFixes(pre[entry.file].text, GroupOf(entry.file))

\* C20: after a single fix that returned success the manifest holds a line
\* package==fixed_version for the package of the Finding.
C20_SuccessMeansPinned ==
    FixSucceeded =>
        \E i \in 1..Len(SplitLines(fs[FixRow.file].text)) :
            SplitLines(fs[FixRow.file].text)[i] =
                PinLine(FixRow.package, FixRow.fixed_version)

-----------------------------------------------------------------------------
(* The SARIF parser on its own: reports drawn from bounded sets *)

\* SARIF results: a level in lower or upper case, a word that is no SARIF
\* level, or no level at all
SarifResultSet ==
    {[ruleId |-> "CVE-1", level |-> l] : l \in {"error", "WARNING", "note", "critical"}}
    \cup {[ruleId |-> "CVE-1"]}

\* a run with no results array, or with one
SarifRuns ==
    {[tool |-> "trivy"]} \cup
    {[tool |-> "trivy", results |-> rs] : rs \in SeqsUpTo(SarifResultSet, MaxResults) \ {<<>>}}

\* the report file: absent, no JSON, a JSON array, a JSON object
SarifFiles ==
    {[tag |-> "absent"], Garbage, Json("list", <<>>), Json("obj", [version |-> "2.1.0"])}
    \cup {Json("obj", [runs |-> runs]) : runs \in SeqsUpTo(SarifRuns, MaxRuns)}

\* dep_data = parse_trivy_sarif(trivy_report): json.load and sarif_data.get
\* raise on a file that holds no JSON object
ParseSarif ==
    /\ apc = "idle"
    /\ \E file \in SarifFiles :
        /\ sarif' = file
        /\ IF file.tag = "absent"
           THEN apc' = "parsed" /\ dep_data' = NoData
           ELSE IF file.tag = "garbage" \/ file.data.t # "obj"
           THEN apc' = "raised" /\ dep_data' = NoData
           ELSE apc' = "parsed" /\ dep_data' = parse_trivy_sarif(file.data.v)
    /\ UNCHANGED <<scanVars, storeVars, readVars, fixVars, loopVars>>

\* the next report
ParseReset ==
    /\ apc \in {"parsed", "raised"}
    /\ apc' = "idle"
    /\ sarif' = [tag |-> "none"]
    /\ dep_data' = NoData
    /\ UNCHANGED <<scanVars, storeVars, readVars, fixVars, loopVars>>

NextSarif == ParseSarif \/ ParseReset

SpecSarif == Init /\ [][NextSarif]_vars

\* the severity the level mapping names for a result
MappedLevel(result) ==
    IF "level" \notin DOMAIN result THEN "LOW"
    ELSE CASE Lower(result.level) = "error"   -> "HIGH"
           [] Lower(result.level) = "warning" -> "MEDIUM"
           [] OTHER                           -> "LOW"

\* C11: every Finding the SARIF parser returns carries the severity the
\* level mapping gives its result (error HIGH, warning MEDIUM, note LOW, any
\* other or missing level LOW), a member of HIGH, MEDIUM, LOW, never CRITICAL.
C11_SarifLevels ==
    (apc = "parsed" /\ sarif.tag = "json") =>
        LET rs == SarifResults(Get(sarif.data.v, "runs", <<>>))
        IN  \A i \in 1..Len(dep_data.findings) :
                /\ dep_data.findings[i].severity = MappedLevel(rs[i])
                /\ dep_data.findings[i].severity \in {"HIGH", "MEDIUM", "LOW"}

====
